---- MODULE Spec2Model ----
(***************************************************************************)
(* Model of the documents of src/src/models: the PushRecord (the delivery  *)
(* attempt) with its schema defaults and validators, its lifecycle methods *)
(* and its retry policy; the Subscription with its save hooks, matching    *)
(* predicates and statistics; the Tweet with its hotness score.            *)
(*                                                                         *)
(* Times are integer milliseconds (Date.getTime()).  An optional field is  *)
(* the empty set when it is unset (undefined / null) and the singleton     *)
(* {v} when it holds v.                                                    *)
(***************************************************************************)
EXTENDS Integers, Sequences, FiniteSets, TLC

\* ---- bounds of the model ----
MaxTime == 2
MaxRetryCount == 6
MaxTimedRetries == 1
MaxClicks == 2
MaxPushCalls == 2
MaxUpdates == 2
MaxBatch == 2
MaxLoginTime == 3
MaxLoginAttempts == 6
NumWorkers == 2

\* ---- program constants of the schema ----
RetryCountMax == 5
MaxKeywords == 20
DefaultMaxRetries == 3
DefaultRetryDelay == 300
MsPerSecond == 1000

Unset == {}
Some(v) == {v}
IsSet(o) == o # {}
TheVal(o) == CHOOSE v \in o : TRUE

RECURSIVE Pow2(_)
Pow2(n) == IF n <= 0 THEN 1 ELSE 2 * Pow2(n - 1)

\* ---- inputs ----
Times == 0..MaxTime
ScheduledAtInputs == {Unset} \cup {Some(t) : t \in Times}
MaxRetriesInputs == {1, DefaultMaxRetries}
RetryDelayInputs == {5, DefaultRetryDelay}
MessageIds == {"m1", "m2"}
ResponseTimes == {0}
RawResponses == {Unset, Some("raw")}
ErrorArgs == {<<"E_TIMEOUT", "timeout">>, <<"E_BLOCKED", "recipient blocked">>}
RetryErrors == {"timeout"}
RetryDurations == {0}
\* Math.random() * 1000, in tenths of a millisecond: samples of [0, 10000)
JitterSamples == {0, 9, 4321, 9999}
Workers == 1..NumWorkers
InteractionKinds == {"read", "click", "feedback", "share"}
FeedbackInputs == {Unset, Some("like"), Some("spam")}

VARIABLES
  status,        \* pushRecordSchema.status
  pushConfig,    \* pushRecordSchema.pushConfig: retryCount, maxRetries, retryDelay
  result,        \* pushRecordSchema.result
  timing,        \* pushRecordSchema.timing
  retryHistory,  \* pushRecordSchema.retryHistory
  now,           \* the wall clock read by new Date() / Date.now()
  ret,           \* the last call made on the document, its arguments and what it returned
  cycles,        \* history: completed (markAsFailed; addRetryAttempt) pairs, -1 once
                 \* addRetryAttempt was called without a preceding markAsFailed
  interaction,   \* pushRecordSchema.interaction
  storedAttempt, \* the PushRecord as stored in the database (status)
  held,          \* per worker: its loaded copy of the PushRecord and where it stands
  subStored,     \* the Subscription as stored in the database
  subDocs,       \* per holder: its loaded (in-memory) Subscription document
  tweet,         \* the Tweet document (the item)
  scored,        \* history: age and result of the last two calculateHotnessScore calls
  subscriptions, \* the Subscription collection read by the matching step
  tweetDocs,     \* per worker: its loaded (in-memory) Tweet document
  user,          \* the User as stored in the database
  userDocs,      \* per request: its loaded (in-memory) User document
  config,        \* the SystemConfig document in memory
  configs        \* the SystemConfig collection as stored in the database, by key

\* the documents of the other collections
otherVars == <<subscriptions, tweetDocs, user, userDocs, config, configs>>
\* the variables outside the in-memory PushRecord
nonAttemptVars == <<storedAttempt, held, subStored, subDocs, tweet, scored, otherVars>>
\* the variables of the in-memory PushRecord
attemptVars == <<status, pushConfig, result, timing, retryHistory, cycles, interaction>>

vars == <<status, pushConfig, result, timing, retryHistory, now, ret, cycles,
          interaction, storedAttempt, held, subStored, subDocs, tweet, scored,
          subscriptions, tweetDocs, user, userDocs, config, configs>>

OtherIdle ==
  /\ subscriptions = Unset
  /\ tweetDocs = Unset
  /\ user = Unset
  /\ userDocs = Unset
  /\ config = Unset
  /\ configs = Unset

NonAttemptIdle ==
  /\ storedAttempt = Unset
  /\ held = Unset
  /\ subStored = Unset
  /\ subDocs = Unset
  /\ tweet = Unset
  /\ scored = <<>>
  /\ OtherIdle

\* ---- schema defaults (construction) ----
DefaultStatusSending == "sending"
DefaultStatus == "pending"
DefaultRetryCount == 0
MaxHour == 23
LockThreshold == 5
LockHours == 2
DefaultRetryHistory == <<>>
DefaultTiming(scheduledAt) ==
  [scheduledAt |-> scheduledAt, startedAt |-> Unset, completedAt |-> Unset,
   duration |-> Unset, queueTime |-> Unset]
DefaultInteraction ==
  [isRead |-> FALSE, readAt |-> Unset, isClicked |-> FALSE, clickedAt |-> Unset,
   clickCount |-> 0, feedback |-> Unset, feedbackAt |-> Unset]
DefaultResult ==
  [messageId |-> Unset, deliveryTime |-> Unset, responseTime |-> Unset,
   errorCode |-> Unset, errorMessage |-> Unset, rawResponse |-> Unset]

\* new PushRecord({..., timing: {scheduledAt}, pushConfig: {maxRetries, retryDelay}})
NewPushRecord(scheduledAt, maxRetries, retryDelay) ==
  /\ status = DefaultStatus
  /\ pushConfig = [retryCount |-> DefaultRetryCount, maxRetries |-> maxRetries,
                   retryDelay |-> retryDelay]
  /\ result = DefaultResult
  /\ timing = DefaultTiming(scheduledAt)
  /\ retryHistory = DefaultRetryHistory
  /\ interaction = DefaultInteraction
  /\ ret = [op |-> "new", args |-> <<scheduledAt>>, val |-> "created"]
  /\ cycles = 0

\* Spec: one attempt over its lifecycle, the clock running
Init ==
  /\ now = 0
  /\ NonAttemptIdle
  /\ \E s \in ScheduledAtInputs :
       NewPushRecord(s, DefaultMaxRetries, DefaultRetryDelay)

\* SpecRetry: one attempt under the retry policy, the clock held
InitRetry ==
  /\ now = 0
  /\ NonAttemptIdle
  /\ \E s \in {Unset, Some(0)}, m \in MaxRetriesInputs, d \in RetryDelayInputs :
       NewPushRecord(s, m, d)

\* ---- this.save(): the schema validators run on the document ----
\* pushConfig.retryCount: { max: 5 }
ValidRetryCount(pc) == pc.retryCount <= RetryCountMax
\* interaction.feedback: { enum: ['like', 'dislike', 'report', 'block'], default: null }
FeedbackEnum == {"like", "dislike", "report", "block"}
ValidFeedback(i) == i.feedback \subseteq FeedbackEnum
Save(pc, i) ==
  IF ValidRetryCount(pc) /\ ValidFeedback(i) THEN "saved" ELSE "ValidationError"

\* ---- the clock ----
Tick ==
  /\ now < MaxTime
  /\ now' = now + 1
  /\ ret' = [op |-> "tick", args |-> <<>>, val |-> "none"]
  /\ UNCHANGED <<status, pushConfig, result, timing, retryHistory, cycles, interaction>>
  /\ UNCHANGED nonAttemptVars

\* the clock, for the documents other than the in-memory PushRecord
WorkerTick ==
  /\ now < MaxTime
  /\ now' = now + 1
  /\ ret' = [op |-> "tick", args |-> <<>>, val |-> "none"]
  /\ UNCHANGED <<storedAttempt, held, subStored, subDocs, tweet, scored, otherVars>>
  /\ UNCHANGED attemptVars

\* ---- lifecycle methods ----
StartedTimingReversed(t, at) ==
  LET started == [t EXCEPT !.startedAt = Some(at)]
  IN IF IsSet(t.scheduledAt)
       THEN [started EXCEPT !.queueTime = Some(TheVal(t.scheduledAt) - at)]
       ELSE started

StartedTiming(t, at) ==
  LET started == [t EXCEPT !.startedAt = Some(at)]
  IN IF IsSet(t.scheduledAt)
       THEN [started EXCEPT !.queueTime = Some(at - TheVal(t.scheduledAt))]
       ELSE started

markAsStarted ==
  /\ status' = "sending"
  /\ timing' = StartedTiming(timing, now)
  /\ ret' = [op |-> "markAsStarted", args |-> <<>>, val |-> Save(pushConfig, interaction)]
  /\ UNCHANGED <<pushConfig, result, retryHistory, now, cycles, interaction>>
  /\ UNCHANGED nonAttemptVars

CompletedTiming(t, at) ==
  LET completed == [t EXCEPT !.completedAt = Some(at)]
  IN IF IsSet(t.startedAt)
       THEN [completed EXCEPT !.duration = Some(at - TheVal(t.startedAt))]
       ELSE completed

SuccessResult(r, messageId, responseTime, rawResponse, at) ==
  LET base == [r EXCEPT !.messageId = Some(messageId),
                        !.deliveryTime = Some(at),
                        !.responseTime = Some(responseTime)]
  IN IF IsSet(rawResponse) THEN [base EXCEPT !.rawResponse = rawResponse] ELSE base

markAsSuccess(messageId, responseTime, rawResponse) ==
  /\ status' = "success"
  /\ timing' = CompletedTiming(timing, now)
  /\ result' = SuccessResult(result, messageId, responseTime, rawResponse, now)
  /\ ret' = [op |-> "markAsSuccess", args |-> <<messageId>>, val |-> Save(pushConfig, interaction)]
  /\ UNCHANGED <<pushConfig, retryHistory, now, cycles, interaction>>
  /\ UNCHANGED nonAttemptVars

FailedResult(r, errorCode, errorMessage, rawResponse) ==
  LET base == [r EXCEPT !.errorCode = Some(errorCode),
                        !.errorMessage = Some(errorMessage)]
  IN IF IsSet(rawResponse) THEN [base EXCEPT !.rawResponse = rawResponse] ELSE base

markAsFailed(errorCode, errorMessage, rawResponse) ==
  /\ status' = "failed"
  /\ timing' = CompletedTiming(timing, now)
  /\ result' = FailedResult(result, errorCode, errorMessage, rawResponse)
  /\ ret' = [op |-> "markAsFailed", args |-> <<errorCode, errorMessage>>,
             val |-> Save(pushConfig, interaction)]
  /\ UNCHANGED <<pushConfig, retryHistory, now, cycles, interaction>>
  /\ UNCHANGED nonAttemptVars

RetryNotCounted(pc) == pc

RetryAddedTwice(pc) == [pc EXCEPT !.retryCount = pc.retryCount + 2]

RetryAdded(pc) == [pc EXCEPT !.retryCount = pc.retryCount + 1]

RetryEntryStale(pc, at, error, duration) ==
  [attempt |-> pc.retryCount - 1, timestamp |-> at, error |-> error,
   duration |-> duration]

\* the entry pushed onto retryHistory, from the already incremented counter
RetryEntry(pc, at, error, duration) ==
  [attempt |-> pc.retryCount, timestamp |-> at, error |-> error, duration |-> duration]

addRetryAttempt(error, duration) ==
  /\ pushConfig' = RetryAdded(pushConfig)
  /\ retryHistory' = Append(retryHistory, RetryEntry(pushConfig', now, error, duration))
  /\ ret' = [op |-> "addRetryAttempt", args |-> <<error>>, val |-> Save(pushConfig', interaction)]
  /\ cycles' = IF cycles >= 0 /\ ret.op = "markAsFailed" THEN cycles + 1 ELSE -1
  /\ UNCHANGED <<status, result, timing, now, interaction>>
  /\ UNCHANGED nonAttemptVars

\* ---- user interaction ----
InteractionUpdatedFallthrough(i, type, feedback, at) ==
  CASE type = "read" ->
         [i EXCEPT !.isRead = TRUE, !.readAt = Some(at),
                   !.isClicked = TRUE, !.clickedAt = Some(at),
                   !.clickCount = i.clickCount + 1]
    [] type = "click" ->
         [i EXCEPT !.isClicked = TRUE, !.clickedAt = Some(at),
                   !.clickCount = i.clickCount + 1]
    [] type = "feedback" ->
         [i EXCEPT !.feedback = feedback, !.feedbackAt = Some(at)]
    [] OTHER -> i

\* the switch on type; feedback is data.feedback (unset for data = {})
InteractionUpdated(i, type, feedback, at) ==
  CASE type = "read" ->
         [i EXCEPT !.isRead = TRUE, !.readAt = Some(at)]
    [] type = "click" ->
         [i EXCEPT !.isClicked = TRUE, !.clickedAt = Some(at),
                   !.clickCount = i.clickCount + 1]
    [] type = "feedback" ->
         [i EXCEPT !.feedback = feedback, !.feedbackAt = Some(at)]
    [] OTHER -> i

updateInteraction(type, feedback) ==
  /\ interaction' = InteractionUpdated(interaction, type, feedback, now)
  /\ ret' = [op |-> "updateInteraction", args |-> <<type, feedback>>,
             val |-> Save(pushConfig, interaction')]
  /\ UNCHANGED <<status, pushConfig, result, timing, retryHistory, now, cycles>>
  /\ UNCHANGED nonAttemptVars

\* ---- retry policy ----
canRetryAtCap ==
  pushConfig.retryCount <= pushConfig.maxRetries /\ status = "failed"

canRetry ==
  pushConfig.retryCount < pushConfig.maxRetries /\ status = "failed"

\* Math.pow(2, retryCount - 1) is 1/2 for retryCount = 0: baseDelay is a multiple
\* of 1000, so the product is computed as baseDelay * 2^retryCount / 2.
ExponentialDelayOffByOne(pc) ==
  LET baseDelay == pc.retryDelay * MsPerSecond
  IN baseDelay * Pow2(pc.retryCount)

ExponentialDelay(pc) ==
  LET baseDelay == pc.retryDelay * MsPerSecond
  IN (baseDelay * Pow2(pc.retryCount)) \div 2

\* new Date(x) keeps the integer part of the time value x (here in tenths of ms)
TenthsOfMs(ms) == ms * 10
DateOfTenths(x) == x \div 10

getNextRetryTime(jitterTenths) ==
  IF ~canRetry THEN Unset
  ELSE Some(DateOfTenths(TenthsOfMs(now + ExponentialDelay(pushConfig)) + jitterTenths))

CanRetryCall ==
  /\ ret' = [op |-> "canRetry", args |-> <<>>, val |-> canRetry]
  /\ UNCHANGED <<status, pushConfig, result, timing, retryHistory, now, cycles, interaction>>
  /\ UNCHANGED nonAttemptVars

GetNextRetryTimeCall(jitterTenths) ==
  /\ ret' = [op |-> "getNextRetryTime", args |-> <<>>, val |-> getNextRetryTime(jitterTenths)]
  /\ UNCHANGED <<status, pushConfig, result, timing, retryHistory, now, cycles, interaction>>
  /\ UNCHANGED nonAttemptVars

\* ---- the caller: re-enqueue of a failed attempt, external cancellation ----
Requeue ==
  /\ canRetry
  /\ status' = "pending"
  /\ ret' = [op |-> "requeue", args |-> <<>>, val |-> Save(pushConfig, interaction)]
  /\ UNCHANGED <<pushConfig, result, timing, retryHistory, now, cycles, interaction>>
  /\ UNCHANGED nonAttemptVars

Cancel ==
  /\ status \in {"pending", "sending"}
  /\ status' = "cancelled"
  /\ ret' = [op |-> "cancel", args |-> <<>>, val |-> Save(pushConfig, interaction)]
  /\ UNCHANGED <<pushConfig, result, timing, retryHistory, now, cycles, interaction>>
  /\ UNCHANGED nonAttemptVars

Next ==
  \/ Tick
  \/ markAsStarted
  \/ \E m \in MessageIds, rt \in ResponseTimes, raw \in RawResponses :
       markAsSuccess(m, rt, raw)
  \/ \E e \in ErrorArgs, raw \in RawResponses : markAsFailed(e[1], e[2], raw)
  \/ \E e \in RetryErrors, d \in RetryDurations :
       pushConfig.retryCount < MaxTimedRetries /\ addRetryAttempt(e, d)
  \/ Requeue
  \/ Cancel

Spec == Init /\ [][Next]_vars

NextRetry ==
  \/ markAsStarted
  \/ \E m \in MessageIds, rt \in ResponseTimes, raw \in RawResponses :
       markAsSuccess(m, rt, raw)
  \/ \E e \in ErrorArgs, raw \in RawResponses : markAsFailed(e[1], e[2], raw)
  \/ \E e \in RetryErrors, d \in RetryDurations :
       pushConfig.retryCount < MaxRetryCount /\ addRetryAttempt(e, d)
  \/ CanRetryCall
  \/ \E j \in JitterSamples : GetNextRetryTimeCall(j)
  \/ Requeue
  \/ Cancel

SpecRetry == InitRetry /\ [][NextRetry]_vars

\* SpecInteraction: one attempt through its statuses, with user interaction,
\* the clock held
InitInteraction ==
  /\ now = 0
  /\ NonAttemptIdle
  /\ NewPushRecord(Unset, DefaultMaxRetries, DefaultRetryDelay)

NextInteraction ==
  \/ markAsStarted
  \/ markAsSuccess("m1", 0, Unset)
  \/ markAsFailed("E_TIMEOUT", "timeout", Unset)
  \/ Cancel
  \/ \E k \in InteractionKinds, f \in FeedbackInputs :
       /\ k = "click" => interaction.clickCount < MaxClicks
       /\ updateInteraction(k, f)

SpecInteraction == InitInteraction /\ [][NextInteraction]_vars


\* ======================= Subscription =======================
\* Strings that are searched (text, keywords) are sequences of characters.

\* subscriptionSchema defaults; keywords, excludeKeywords and channels are what
\* the creator supplies
DefaultFilters ==
  [languages |-> <<>>, minLikes |-> 0, minRetweets |-> 0, minReplies |-> 0,
   hasMedia |-> "any", hasLinks |-> "any", excludeKeywords |-> <<>>]
DefaultStats ==
  [totalMatches |-> 0, totalPushes |-> 0, lastMatchAt |-> Unset, lastPushAt |-> Unset]
NewSubscription(keywords, channels) ==
  [keywords |-> keywords,
   filters |-> DefaultFilters,
   pushSettings |-> [channels |-> channels, frequency |-> "hourly",
                     activeHours |-> [start |-> 9, end |-> 22]],
   isActive |-> TRUE,
   stats |-> DefaultStats]

KeywordAI == <<"A", "I">>

\* the owner switches the subscription off: isActive = false, saved
Deactivate ==
  /\ subStored.isActive
  /\ subStored' = [subStored EXCEPT !.isActive = FALSE]
  /\ ret' = [op |-> "deactivate", args |-> <<>>, val |-> "saved"]
  /\ UNCHANGED <<now, storedAttempt, held, subDocs, tweet, scored, otherVars>>
  /\ UNCHANGED attemptVars

\* SpecCancel: one attempt of a subscription that may be switched off
InitCancel ==
  /\ now = 0
  /\ storedAttempt = Unset
  /\ held = Unset
  /\ subStored = NewSubscription(<<KeywordAI>>, <<"telegram">>)
  /\ subDocs = Unset
  /\ tweet = Unset
  /\ scored = <<>>
  /\ OtherIdle
  /\ NewPushRecord(Unset, DefaultMaxRetries, DefaultRetryDelay)

NextCancel ==
  \/ Deactivate
  \/ markAsStarted
  \/ \E m \in MessageIds, rt \in ResponseTimes, raw \in RawResponses :
       markAsSuccess(m, rt, raw)
  \/ \E e \in ErrorArgs, raw \in RawResponses : markAsFailed(e[1], e[2], raw)
  \/ \E e \in RetryErrors, d \in RetryDurations :
       pushConfig.retryCount < MaxTimedRetries /\ addRetryAttempt(e, d)
  \/ Requeue
  \/ Cancel

SpecCancel == InitCancel /\ [][NextCancel]_vars

\* ---- subscription.save(): the two pre('save') hooks, in order ----
SubscriptionSaveNoChannelHook(doc) ==
  IF Len(doc.keywords) = 0 THEN "Error: no keyword"
  ELSE IF Len(doc.keywords) > MaxKeywords THEN "Error: too many keywords"
  ELSE "saved"

SubscriptionSave(doc) ==
  IF Len(doc.keywords) = 0 THEN "Error: no keyword"
  ELSE IF Len(doc.keywords) > MaxKeywords THEN "Error: too many keywords"
  ELSE IF Len(doc.pushSettings.channels) = 0 THEN "Error: no channel"
  ELSE "saved"

\* ---- updateStats(type) ----
StatsUpdated(stats, type, at) ==
  CASE type = "match" ->
         [stats EXCEPT !.totalMatches = stats.totalMatches + 1, !.lastMatchAt = Some(at)]
    [] type = "push" ->
         [stats EXCEPT !.totalPushes = stats.totalPushes + 1, !.lastPushAt = Some(at)]
    [] OTHER -> stats

\* save() writes the paths the call modified on the copy into the stored document
StatsWritten(stored, copy, type) ==
  CASE type = "match" ->
         [stored EXCEPT !.totalMatches = copy.totalMatches, !.lastMatchAt = copy.lastMatchAt]
    [] type = "push" ->
         [stored EXCEPT !.totalPushes = copy.totalPushes, !.lastPushAt = copy.lastPushAt]
    [] OTHER -> stored

StatTypes == {"match", "push"}

IdleHolder == [pc |-> "idle", type |-> "none", doc |-> Unset, dirty |-> {}]

\* worker w loads its own copy of the subscription: Subscription.findById
LoadSubscription(w) ==
  /\ subDocs[w].pc = "idle"
  /\ subDocs' = [subDocs EXCEPT ![w] = [pc |-> "loaded", type |-> "none",
                                         doc |-> subStored, dirty |-> {}]]
  /\ ret' = [op |-> "findById", args |-> <<w>>, val |-> "loaded"]
  /\ UNCHANGED <<now, storedAttempt, held, subStored, tweet, scored, otherVars>>
  /\ UNCHANGED attemptVars

\* worker w: subscription.updateStats(type) on its copy
updateStats(w, type) ==
  /\ subDocs[w].pc = "loaded"
  /\ LET doc == [subDocs[w].doc EXCEPT !.stats = StatsUpdated(subDocs[w].doc.stats, type, now)]
         outcome == SubscriptionSave(doc)
     IN /\ subDocs' = [subDocs EXCEPT ![w] = [pc |-> "done", type |-> type, doc |-> doc,
                                              dirty |-> subDocs[w].dirty]]
        /\ subStored' = IF outcome = "saved"
                          THEN [subStored EXCEPT
                                  !.stats = StatsWritten(subStored.stats, doc.stats, type)]
                          ELSE subStored
        /\ ret' = [op |-> "updateStats", args |-> <<w, type>>, val |-> outcome]
  /\ UNCHANGED <<now, storedAttempt, held, tweet, scored, otherVars>>
  /\ UNCHANGED attemptVars

\* SpecStats: workers counting matches and pushes of one stored subscription
InitStats ==
  /\ now = 0
  /\ storedAttempt = Unset
  /\ held = Unset
  /\ subStored = NewSubscription(<<KeywordAI>>, <<"telegram">>)
  /\ subDocs = [w \in Workers |-> IdleHolder]
  /\ tweet = Unset
  /\ scored = <<>>
  /\ OtherIdle
  /\ NewPushRecord(Unset, DefaultMaxRetries, DefaultRetryDelay)

NextStats ==
  \/ WorkerTick
  \/ \E w \in Workers : LoadSubscription(w)
  \/ \E w \in Workers, t \in StatTypes : updateStats(w, t)

SpecStats == InitStats /\ [][NextStats]_vars

\* ---- editing and saving a subscription ----
RECURSIVE RepeatKeyword(_)
RepeatKeyword(n) == IF n <= 0 THEN <<>> ELSE Append(RepeatKeyword(n - 1), KeywordAI)

KeywordListInputs ==
  {RepeatKeyword(0), RepeatKeyword(1), RepeatKeyword(MaxKeywords),
   RepeatKeyword(MaxKeywords + 1)}
ChannelListInputs == {<<>>, <<"telegram">>, <<"wechat", "discord">>}
\* the holders that edit: two of the workers
Editors == {w \in Workers : w <= 2}

\* the holder assigns a path of its in-memory document
SetKeywords(w, ks) ==
  /\ subDocs[w].pc = "loaded"
  /\ subDocs' = [subDocs EXCEPT ![w].doc.keywords = ks,
                                ![w].dirty = subDocs[w].dirty \cup {"keywords"}]
  /\ ret' = [op |-> "set", args |-> <<w, "keywords">>, val |-> "none"]
  /\ UNCHANGED <<now, storedAttempt, held, subStored, tweet, scored, otherVars>>
  /\ UNCHANGED attemptVars

SetChannels(w, cs) ==
  /\ subDocs[w].pc = "loaded"
  /\ subDocs' = [subDocs EXCEPT ![w].doc.pushSettings.channels = cs,
                                ![w].dirty = subDocs[w].dirty \cup {"channels"}]
  /\ ret' = [op |-> "set", args |-> <<w, "channels">>, val |-> "none"]
  /\ UNCHANGED <<now, storedAttempt, held, subStored, tweet, scored, otherVars>>
  /\ UNCHANGED attemptVars

\* save() writes the modified paths of the copy when the hooks pass
PathsWritten(stored, doc, dirty) ==
  [stored EXCEPT
     !.keywords = IF "keywords" \in dirty THEN doc.keywords ELSE stored.keywords,
     !.pushSettings.channels = IF "channels" \in dirty THEN doc.pushSettings.channels
                               ELSE stored.pushSettings.channels]

SaveSubscription(w) ==
  /\ subDocs[w].pc = "loaded"
  /\ LET outcome == SubscriptionSave(subDocs[w].doc)
     IN /\ subStored' = IF outcome = "saved"
                          THEN PathsWritten(subStored, subDocs[w].doc, subDocs[w].dirty)
                          ELSE subStored
        /\ subDocs' = IF outcome = "saved"
                        THEN [subDocs EXCEPT ![w].dirty = {}]
                        ELSE subDocs
        /\ ret' = [op |-> "save", args |-> <<w>>, val |-> outcome]
  /\ UNCHANGED <<now, storedAttempt, held, tweet, scored, otherVars>>
  /\ UNCHANGED attemptVars

\* SpecSave: holders editing and saving one stored subscription
InitSave ==
  /\ now = 0
  /\ storedAttempt = Unset
  /\ held = Unset
  /\ subStored = NewSubscription(<<KeywordAI>>, <<"telegram">>)
  /\ subDocs = [w \in Workers |-> IdleHolder]
  /\ tweet = Unset
  /\ scored = <<>>
  /\ OtherIdle
  /\ NewPushRecord(Unset, DefaultMaxRetries, DefaultRetryDelay)

NextSave ==
  \/ \E w \in Editors : LoadSubscription(w)
  \/ \E w \in Editors, ks \in KeywordListInputs : SetKeywords(w, ks)
  \/ \E w \in Editors, cs \in ChannelListInputs : SetChannels(w, cs)
  \/ \E w \in Editors : SaveSubscription(w)

SpecSave == InitSave /\ [][NextSave]_vars

\* ======================= Tweet (the item) =======================
\* pushStatus: isPushed false, pushedAt null, no channel entries, totalPushes 0
DefaultPushStatus ==
  [isPushed |-> FALSE, pushedAt |-> Unset, pushChannels |-> <<>>, totalPushes |-> 0]

\* version is the document's versionKey (__v), which every Mongoose schema has
\* unless it is switched off
NewTweet(text) ==
  [text |-> text,
   pushStatus |-> DefaultPushStatus,
   version |-> 0,
   author |-> [verified |-> FALSE, followers_count |-> 0],
   public_metrics |-> [retweet_count |-> 0, like_count |-> 0, reply_count |-> 0,
                       quote_count |-> 0],
   metadata |-> [created_at |-> 0, lang |-> "und"],
   attachments |-> Unset,
   entities |-> Unset,
   hotness_score |-> 0]

\* ---- matchesKeywords(text) ----
UpperCase == <<"A", "B", "D", "E", "I", "M", "N", "P", "S">>
LowerCase == <<"a", "b", "d", "e", "i", "m", "n", "p", "s">>

\* String.prototype.toLowerCase, character by character
LowerChar(c) ==
  IF \E i \in DOMAIN UpperCase : UpperCase[i] = c
    THEN LowerCase[CHOOSE i \in DOMAIN UpperCase : UpperCase[i] = c]
    ELSE c
ToLowerCase(s) == [i \in 1..Len(s) |-> LowerChar(s[i])]

\* String.prototype.includes: the first position from which sub is found
RECURSIVE IncludesFrom(_, _, _)
IncludesFrom(s, sub, i) ==
  IF i + Len(sub) - 1 > Len(s) THEN FALSE
  ELSE IF SubSeq(s, i, i + Len(sub) - 1) = sub THEN TRUE
  ELSE IncludesFrom(s, sub, i + 1)
Includes(s, sub) == IncludesFrom(s, sub, 1)

matchesKeywordsCaseSensitive(doc, text) ==
  LET lowerText == ToLowerCase(text)
      hasKeyword == \E i \in DOMAIN doc.keywords : Includes(lowerText, doc.keywords[i])
      hasExcludeKeyword ==
        \E i \in DOMAIN doc.filters.excludeKeywords :
          Includes(lowerText, doc.filters.excludeKeywords[i])
  IN IF ~hasKeyword THEN FALSE ELSE ~hasExcludeKeyword

matchesKeywords(doc, text) ==
  LET lowerText == ToLowerCase(text)
      hasKeyword ==
        \E i \in DOMAIN doc.keywords : Includes(lowerText, ToLowerCase(doc.keywords[i]))
      hasExcludeKeyword ==
        \E i \in DOMAIN doc.filters.excludeKeywords :
          Includes(lowerText, ToLowerCase(doc.filters.excludeKeywords[i]))
  IN IF ~hasKeyword THEN FALSE ELSE ~hasExcludeKeyword

MatchesKeywordsCall ==
  /\ ret' = [op |-> "matchesKeywords", args |-> <<tweet.text>>,
             val |-> matchesKeywords(subStored, tweet.text)]
  /\ UNCHANGED <<now, storedAttempt, held, subStored, subDocs, tweet, scored, otherVars>>
  /\ UNCHANGED attemptVars

TextInputs ==
  {<<"N", "e", "w", " ", "A", "I", " ", "b", "r", "e", "a", "k", "t", "h", "r", "o", "u", "g", "h">>,
   <<"A", "I", " ", "s", "p", "a", "m", " ", "d", "e", "a", "l">>,
   <<"a", "i">>, <<"m", "a", "i", "n", " ", "i", "d", "e", "a">>, <<"S", "P", "A", "M">>, <<"D", "e", "a", "l", " ", "o", "n", " ", "A", "I">>, <<"a", " ", "i">>, <<>>}
KeywordInputs == {<<KeywordAI>>, <<<<"a", "i">>, <<"D", "e", "a", "l">>>>, <<<<"B", "r", "e", "a", "k">>>>}
ExcludeInputs == {<<>>, <<<<"s", "p", "a", "m">>>>, <<<<"S", "p", "a", "m">>, <<"n", "e", "w">>>>, << <<>> >>}

\* SpecKeywords: matchesKeywords applied to a text and a subscription
InitKeywords ==
  /\ now = 0
  /\ storedAttempt = Unset
  /\ held = Unset
  /\ \E ks \in KeywordInputs, xs \in ExcludeInputs :
       subStored = [NewSubscription(ks, <<"telegram">>)
                      EXCEPT !.filters.excludeKeywords = xs]
  /\ subDocs = Unset
  /\ \E t \in TextInputs : tweet = NewTweet(t)
  /\ scored = <<>>
  /\ OtherIdle
  /\ NewPushRecord(Unset, DefaultMaxRetries, DefaultRetryDelay)

NextKeywords == MatchesKeywordsCall

SpecKeywords == InitKeywords /\ [][NextKeywords]_vars

\* ---- matchesFilters(tweet) ----
HasMedia(t) ==
  IsSet(t.attachments) /\ Len(TheVal(t.attachments).media_keys) > 0
HasLinks(t) ==
  IsSet(t.entities) /\ Len(TheVal(t.entities).urls) > 0

matchesFilters(doc, t) ==
  LET filters == doc.filters
  IN IF t.public_metrics.like_count < filters.minLikes THEN FALSE
     ELSE IF t.public_metrics.retweet_count < filters.minRetweets THEN FALSE
     ELSE IF t.public_metrics.reply_count < filters.minReplies THEN FALSE
     ELSE IF filters.hasMedia = "required" /\ ~HasMedia(t) THEN FALSE
     ELSE IF filters.hasMedia = "excluded" /\ HasMedia(t) THEN FALSE
     ELSE IF filters.hasLinks = "required" /\ ~HasLinks(t) THEN FALSE
     ELSE IF filters.hasLinks = "excluded" /\ HasLinks(t) THEN FALSE
     ELSE TRUE

MatchesFiltersCall ==
  /\ ret' = [op |-> "matchesFilters", args |-> <<tweet.metadata.lang>>,
             val |-> matchesFilters(subStored, tweet)]
  /\ UNCHANGED <<now, storedAttempt, held, subStored, subDocs, tweet, scored, otherVars>>
  /\ UNCHANGED attemptVars

MinLikesInputs == {0, 2}
MinRetweetsInputs == {0, 1}
MinRepliesInputs == {0, 1}
ModeInputs == {"any", "required", "excluded"}
LanguagesInputs == {<<>>, <<"zh", "en">>}
LikeCountInputs == {1, 2}
RetweetCountInputs == {0, 1}
ReplyCountInputs == {0, 1}
AttachmentsInputs ==
  {Unset, Some([media_keys |-> <<>>]), Some([media_keys |-> <<"3_1">>])}
EntitiesInputs ==
  {Unset, Some([urls |-> <<>>]), Some([urls |-> <<"https://t.co/a">>])}
LangInputs == {"en", "ja"}

\* SpecFilters: matchesFilters applied to a tweet and a subscription
InitFilters ==
  /\ now = 0
  /\ storedAttempt = Unset
  /\ held = Unset
  /\ \E ml \in MinLikesInputs, mr \in MinRetweetsInputs, mp \in MinRepliesInputs,
        hm \in ModeInputs, hl \in ModeInputs, ls \in LanguagesInputs :
       subStored = [NewSubscription(<<KeywordAI>>, <<"telegram">>)
                      EXCEPT !.filters.minLikes = ml,
                             !.filters.minRetweets = mr,
                             !.filters.minReplies = mp,
                             !.filters.hasMedia = hm,
                             !.filters.hasLinks = hl,
                             !.filters.languages = ls]
  /\ subDocs = Unset
  /\ \E lc \in LikeCountInputs, rc \in RetweetCountInputs, pc \in ReplyCountInputs,
        at \in AttachmentsInputs, en \in EntitiesInputs, lg \in LangInputs :
       tweet = [NewTweet(<<"A", "I">>)
                  EXCEPT !.public_metrics.like_count = lc,
                         !.public_metrics.retweet_count = rc,
                         !.public_metrics.reply_count = pc,
                         !.attachments = at,
                         !.entities = en,
                         !.metadata.lang = lg]
  /\ scored = <<>>
  /\ OtherIdle
  /\ NewPushRecord(Unset, DefaultMaxRetries, DefaultRetryDelay)

NextFilters == MatchesFiltersCall

SpecFilters == InitFilters /\ [][NextFilters]_vars

\* ---- isInActiveHours() ----
HourInputs == 0..MaxHour

\* Date.prototype.getHours of the clock, which counts hours here
getHours(t) == t % (MaxHour + 1)

isInActiveHoursNoWrap(doc, t) ==
  LET currentHour == getHours(t)
      start == doc.pushSettings.activeHours.start
      end == doc.pushSettings.activeHours.end
  IN currentHour >= start /\ currentHour <= end

isInActiveHoursEndExclusive(doc, t) ==
  LET currentHour == getHours(t)
      start == doc.pushSettings.activeHours.start
      end == doc.pushSettings.activeHours.end
  IN IF start <= end
       THEN currentHour >= start /\ currentHour < end
       ELSE currentHour >= start \/ currentHour < end

isInActiveHours(doc, t) ==
  LET currentHour == getHours(t)
      start == doc.pushSettings.activeHours.start
      end == doc.pushSettings.activeHours.end
  IN IF start <= end
       THEN currentHour >= start /\ currentHour <= end
       ELSE currentHour >= start \/ currentHour <= end

IsInActiveHoursCall ==
  /\ ret' = [op |-> "isInActiveHours", args |-> <<getHours(now)>>,
             val |-> isInActiveHours(subStored, now)]
  /\ UNCHANGED <<now, storedAttempt, held, subStored, subDocs, tweet, scored, otherVars>>
  /\ UNCHANGED attemptVars

\* SpecHours: isInActiveHours at every hour of the day for every window
InitHours ==
  /\ now \in HourInputs
  /\ storedAttempt = Unset
  /\ held = Unset
  /\ \E s \in HourInputs, en \in HourInputs :
       subStored = [NewSubscription(<<KeywordAI>>, <<"telegram">>)
                      EXCEPT !.pushSettings.activeHours = [start |-> s, end |-> en]]
  /\ subDocs = Unset
  /\ tweet = Unset
  /\ scored = <<>>
  /\ OtherIdle
  /\ NewPushRecord(Unset, DefaultMaxRetries, DefaultRetryDelay)

NextHours == IsInActiveHoursCall

SpecHours == InitHours /\ [][NextHours]_vars

\* ---- calculateHotnessScore() ----
\* The clock of SpecScore counts hours.  Scores are computed in fixed point:
\* the base score in tenths, the author factor in hundredths, the verified
\* factor in fifths and Math.exp in thousandths, rounded once at the end.
ClockHours == {0, 12, 24, 36, 48}
CreatedAtInputs == {0, 24}
LikeInputs == {0, 1, 10}
RetweetInputs == {0, 5}
ReplyInputs == {0, 1}
QuoteInputs == {0, 1}
FollowersInputs == {0, 5000, 50000, 200000}

Min2(a, b) == IF a < b THEN a ELSE b

AgeInHours(t, n) == n - t.metadata.created_at

BaseScoreTenths(t) ==
  t.public_metrics.like_count * 10 + t.public_metrics.retweet_count * 20
    + t.public_metrics.reply_count * 15 + t.public_metrics.quote_count * 18

\* Math.min(followers_count / 10000, 5), in tenths
AuthorWeightTenths(t) == Min2(t.author.followers_count \div 1000, 50)
\* 1 + authorWeight * 0.1, in hundredths
AuthorFactorHundredths(t) == 100 + AuthorWeightTenths(t)
\* 1.2 for a verified author, in fifths
VerifiedFactorFifths(t) == IF t.author.verified THEN 6 ELSE 5

TimeGrowthThousandths(ageInHours) ==
  CASE ageInHours = 48 -> 7389
    [] ageInHours = 36 -> 4482
    [] ageInHours = 24 -> 2718
    [] ageInHours = 12 -> 1649
    [] ageInHours = 0 -> 1000
    [] ageInHours = -12 -> 607
    [] ageInHours = -24 -> 368
    [] ageInHours = -36 -> 223
    [] ageInHours = -48 -> 135

\* Math.exp(-ageInHours / 24), in thousandths
TimeDecayThousandths(ageInHours) ==
  CASE ageInHours = -48 -> 7389
    [] ageInHours = -36 -> 4482
    [] ageInHours = -24 -> 2718
    [] ageInHours = -12 -> 1649
    [] ageInHours = 0 -> 1000
    [] ageInHours = 12 -> 607
    [] ageInHours = 24 -> 368
    [] ageInHours = 36 -> 223
    [] ageInHours = 48 -> 135

\* Math.round of num / den for an even den: the nearest integer, halves up
MathRound(num, den) == (num + den \div 2) \div den

calculateHotnessScore(t, n) ==
  MathRound(BaseScoreTenths(t) * AuthorFactorHundredths(t) * VerifiedFactorFifths(t)
              * TimeDecayThousandths(AgeInHours(t, n)),
            10 * 100 * 5 * 1000)

CalculateHotnessScoreCall ==
  LET score == calculateHotnessScore(tweet, now)
      call == [age |-> AgeInHours(tweet, now), score |-> score]
  IN /\ tweet' = [tweet EXCEPT !.hotness_score = score]
     /\ scored' = IF Len(scored) < 2 THEN Append(scored, call) ELSE <<scored[2], call>>
     /\ ret' = [op |-> "calculateHotnessScore", args |-> <<>>, val |-> score]
     /\ UNCHANGED <<now, storedAttempt, held, subStored, subDocs, otherVars>>
     /\ UNCHANGED attemptVars

\* the item ages: the clock moves on by any number of half days
ScoreTick ==
  /\ \E t \in ClockHours : t > now /\ now' = t
  /\ ret' = [op |-> "tick", args |-> <<>>, val |-> "none"]
  /\ UNCHANGED <<storedAttempt, held, subStored, subDocs, tweet, scored, otherVars>>
  /\ UNCHANGED attemptVars

\* SpecScore: one tweet with fixed engagement scored again and again as it ages
InitScore ==
  /\ now = 0
  /\ storedAttempt = Unset
  /\ held = Unset
  /\ subStored = Unset
  /\ subDocs = Unset
  /\ \E lc \in LikeInputs, rc \in RetweetInputs, pc \in ReplyInputs, qc \in QuoteInputs,
        fc \in FollowersInputs, vf \in BOOLEAN, ca \in CreatedAtInputs :
       tweet = [NewTweet(<<"A", "I">>)
                  EXCEPT !.public_metrics.like_count = lc,
                         !.public_metrics.retweet_count = rc,
                         !.public_metrics.reply_count = pc,
                         !.public_metrics.quote_count = qc,
                         !.author.followers_count = fc,
                         !.author.verified = vf,
                         !.metadata.created_at = ca]
  /\ scored = <<>>
  /\ OtherIdle
  /\ NewPushRecord(Unset, DefaultMaxRetries, DefaultRetryDelay)

NextScore == ScoreTick \/ CalculateHotnessScoreCall

SpecScore == InitScore /\ [][NextScore]_vars

\* ======================= matching one item against the subscriptions ==========
\* one subscription against the item: inactive subscriptions are skipped, then
\* keywords, then filters, then the active hours unless the frequency is realtime
MatchesOne(doc, t, n) ==
  IF ~doc.isActive THEN FALSE
  ELSE IF ~matchesKeywords(doc, t.text) THEN FALSE
  ELSE IF ~matchesFilters(doc, t) THEN FALSE
  ELSE IF doc.pushSettings.frequency = "realtime" THEN TRUE
  ELSE isInActiveHours(doc, n)

\* the positions, in creation order, of the subscriptions the item matches
RECURSIVE MatchFrom(_, _, _, _)
MatchFrom(subs, t, n, i) ==
  IF i > Len(subs) THEN <<>>
  ELSE IF MatchesOne(subs[i], t, n) THEN <<i>> \o MatchFrom(subs, t, n, i + 1)
  ELSE MatchFrom(subs, t, n, i + 1)
match(subs, t, n) == MatchFrom(subs, t, n, 1)

MatchCall ==
  /\ ret' = [op |-> "match", args |-> <<getHours(now)>>,
             val |-> match(subscriptions, tweet, now)]
  /\ UNCHANGED <<now, storedAttempt, held, subStored, subDocs, tweet, scored,
                 subscriptions, tweetDocs, user, userDocs, config, configs>>
  /\ UNCHANGED attemptVars

FrequencyInputs == {"realtime", "hourly"}
WindowInputs == {[start |-> 9, end |-> 22], [start |-> 22, end |-> 6]}
MatchKeywordInputs == {<<KeywordAI>>, <<<<"D", "e", "a", "l">>>>}
MatchHourInputs == {3, 10}
SubscriptionInputs ==
  {[NewSubscription(ks, <<"telegram">>)
      EXCEPT !.isActive = ac,
             !.pushSettings.frequency = fr,
             !.pushSettings.activeHours = wn,
             !.filters.minLikes = ml] :
     ks \in MatchKeywordInputs, ac \in BOOLEAN, fr \in FrequencyInputs,
     wn \in WindowInputs, ml \in MinLikesInputs}

\* SpecMatch: one item matched against two subscriptions at some hour
InitMatch ==
  /\ now \in MatchHourInputs
  /\ storedAttempt = Unset
  /\ held = Unset
  /\ subStored = Unset
  /\ subDocs = Unset
  /\ \E lc \in LikeCountInputs :
       tweet = [NewTweet(<<"N", "e", "w", " ", "A", "I", " ", "b", "r", "e", "a", "k", "t", "h", "r", "o", "u", "g", "h">>) EXCEPT !.public_metrics.like_count = lc]
  /\ scored = <<>>
  /\ \E s1 \in SubscriptionInputs, s2 \in SubscriptionInputs : subscriptions = <<s1, s2>>
  /\ tweetDocs = Unset
  /\ user = Unset
  /\ userDocs = Unset
  /\ config = Unset
  /\ configs = Unset
  /\ NewPushRecord(Unset, DefaultMaxRetries, DefaultRetryDelay)

NextMatch == MatchCall

SpecMatch == InitMatch /\ [][NextMatch]_vars

\* ======================= updatePushStatus on one stored Tweet ==================
PushChannels == {"telegram", "wechat"}
\* (newStatus, messageId, error) of a call
PushCallInputs ==
  {<<"success", Some("m1"), Unset>>, <<"failed", Unset, Some("timeout")>>,
   <<"pending", Unset, Unset>>}

\* pushChannels.find(ch => ch.channel === channel): its position, 0 if none
FindChannel(chs, channel) ==
  IF \E i \in DOMAIN chs : chs[i].channel = channel
    THEN CHOOSE i \in DOMAIN chs :
           chs[i].channel = channel /\ \A j \in 1..(i - 1) : chs[j].channel # channel
    ELSE 0

ChannelEntrySet(en, newStatus, messageId, error, at) ==
  [en EXCEPT !.status = newStatus,
             !.pushedAt = Some(at),
             !.messageId = IF IsSet(messageId) THEN messageId ELSE en.messageId,
             !.error = IF IsSet(error) THEN error ELSE en.error]

ChannelEntryNew(channel, newStatus, messageId, error, at) ==
  [channel |-> channel, status |-> newStatus, pushedAt |-> Some(at),
   messageId |-> messageId, error |-> error]

AllSuccess(chs) == \A i \in DOMAIN chs : chs[i].status = "success"
AnySuccess(chs) == \E i \in DOMAIN chs : chs[i].status = "success"

\* the document's pushStatus after the body of updatePushStatus
PushStatusUpdated(ps, channel, newStatus, messageId, error, at) ==
  LET k == FindChannel(ps.pushChannels, channel)
      chs == IF k > 0
               THEN [ps.pushChannels EXCEPT
                       ![k] = ChannelEntrySet(ps.pushChannels[k], newStatus, messageId, error, at)]
               ELSE Append(ps.pushChannels,
                           ChannelEntryNew(channel, newStatus, messageId, error, at))
  IN [isPushed |-> IF AllSuccess(chs) THEN TRUE ELSE ps.isPushed,
      pushedAt |-> IF AllSuccess(chs) THEN Some(at) ELSE ps.pushedAt,
      pushChannels |-> chs,
      totalPushes |-> IF AnySuccess(chs) THEN ps.totalPushes + 1 ELSE ps.totalPushes]

\* save() of the copy after one updatePushStatus: a changed entry is written by
\* its position and only if the stored version is the copy's (VersionError
\* otherwise); a new entry is pushed onto the stored array and the version
\* incremented; isPushed, pushedAt and totalPushes are written when assigned
PushSaveOutcome(stored, before, channel) ==
  IF FindChannel(before.pushStatus.pushChannels, channel) > 0
       /\ stored.version # before.version
    THEN "VersionError" ELSE "saved"

PushStatusWritten(stored, before, after, channel) ==
  LET k == FindChannel(before.pushStatus.pushChannels, channel)
      sp == stored.pushStatus
      ap == after.pushStatus
      chs == IF k > 0
               THEN [sp.pushChannels EXCEPT ![k] = ap.pushChannels[k]]
               ELSE Append(sp.pushChannels, ap.pushChannels[Len(ap.pushChannels)])
  IN [stored EXCEPT
        !.pushStatus = [isPushed |-> IF AllSuccess(ap.pushChannels) THEN TRUE ELSE sp.isPushed,
                        pushedAt |-> IF AllSuccess(ap.pushChannels)
                                       THEN ap.pushedAt ELSE sp.pushedAt,
                        pushChannels |-> chs,
                        totalPushes |-> IF AnySuccess(ap.pushChannels)
                                          THEN ap.totalPushes ELSE sp.totalPushes],
        !.version = IF k > 0 THEN stored.version ELSE stored.version + 1]

IdleTweetHolder == [pc |-> "idle", doc |-> Unset, calls |-> 0]

\* worker w loads its own copy of the tweet: Tweet.findOne
LoadTweet(w) ==
  /\ tweetDocs[w].pc = "idle"
  /\ tweetDocs' = [tweetDocs EXCEPT ![w] = [pc |-> "loaded", doc |-> Some(tweet), calls |-> 0]]
  /\ ret' = [op |-> "findOne", args |-> <<w>>, val |-> "loaded"]
  /\ UNCHANGED <<now, storedAttempt, held, subStored, subDocs, tweet, scored,
                 subscriptions, user, userDocs, config, configs>>
  /\ UNCHANGED attemptVars

\* worker w: tweet.updatePushStatus(channel, newStatus, messageId, error) on its copy
updatePushStatus(w, channel, newStatus, messageId, error) ==
  /\ tweetDocs[w].pc = "loaded"
  /\ tweetDocs[w].calls < MaxPushCalls
  /\ LET before == TheVal(tweetDocs[w].doc)
         after == [before EXCEPT
                     !.pushStatus = PushStatusUpdated(before.pushStatus, channel, newStatus,
                                                      messageId, error, now)]
         outcome == PushSaveOutcome(tweet, before, channel)
         written == PushStatusWritten(tweet, before, after, channel)
     IN /\ tweet' = IF outcome = "saved" THEN written ELSE tweet
        /\ tweetDocs' =
             [tweetDocs EXCEPT
                ![w] = IF outcome = "saved"
                         THEN [pc |-> "loaded",
                               doc |-> Some([after EXCEPT
                                               !.version = before.version
                                                 + (written.version - tweet.version)]),
                               calls |-> tweetDocs[w].calls + 1]
                         ELSE [pc |-> "error", doc |-> Some(after),
                               calls |-> tweetDocs[w].calls + 1]]
        /\ ret' = [op |-> "updatePushStatus", args |-> <<w, channel, newStatus>>,
                   val |-> outcome]
  /\ UNCHANGED <<now, storedAttempt, held, subStored, subDocs, scored,
                 subscriptions, user, userDocs, config, configs>>
  /\ UNCHANGED attemptVars

\* SpecPush: workers reporting channel outcomes on one stored tweet
InitPush ==
  /\ now = 0
  /\ storedAttempt = Unset
  /\ held = Unset
  /\ subStored = Unset
  /\ subDocs = Unset
  /\ tweet = NewTweet(<<"A", "I">>)
  /\ scored = <<>>
  /\ subscriptions = Unset
  /\ tweetDocs = [w \in Workers |-> IdleTweetHolder]
  /\ user = Unset
  /\ userDocs = Unset
  /\ config = Unset
  /\ configs = Unset
  /\ NewPushRecord(Unset, DefaultMaxRetries, DefaultRetryDelay)

NextPush ==
  \/ \E w \in Workers : LoadTweet(w)
  \/ \E w \in Workers, c \in PushChannels, in \in PushCallInputs :
       updatePushStatus(w, c, in[1], in[2], in[3])

SpecPush == InitPush /\ [][NextPush]_vars

\* ======================= login attempts on one stored User =====================
\* The clock of SpecLogin counts hours.
DefaultSecurity == [loginAttempts |-> 0, lockUntil |-> Unset]
NewUser == [security |-> DefaultSecurity]

IdleRequest == [pc |-> "idle", doc |-> Unset]

\* isLocked(): lockUntil is set and later than the clock
isLocked(doc, t) == IsSet(doc.security.lockUntil) /\ TheVal(doc.security.lockUntil) > t

\* the branch on an expired lock in incLoginAttempts
LockExpired(doc, t) == IsSet(doc.security.lockUntil) /\ TheVal(doc.security.lockUntil) < t

\* the update document incLoginAttempts builds from the in-memory copy
LoginUpdates(doc, t) ==
  IF LockExpired(doc, t)
    THEN [unsetLock |-> TRUE, setAttempts |-> Some(1), inc |-> 0, setLock |-> Unset]
    ELSE [unsetLock |-> FALSE, setAttempts |-> Unset, inc |-> 1,
          setLock |-> IF doc.security.loginAttempts + 1 >= LockThreshold /\ ~isLocked(doc, t)
                        THEN Some(t + LockHours) ELSE Unset]

\* this.updateOne(updates): the operators applied to the stored document
UpdateOne(stored, u) ==
  [stored EXCEPT
     !.security.loginAttempts =
       IF IsSet(u.setAttempts) THEN TheVal(u.setAttempts)
       ELSE stored.security.loginAttempts + u.inc,
     !.security.lockUntil =
       IF u.unsetLock THEN Unset
       ELSE IF IsSet(u.setLock) THEN u.setLock
       ELSE stored.security.lockUntil]

\* request r loads its own copy of the user: User.findOne
LoadUser(r) ==
  /\ userDocs' = [userDocs EXCEPT ![r] = [pc |-> "loaded", doc |-> Some(user)]]
  /\ userDocs'[r] # userDocs[r]
  /\ ret' = [op |-> "findOne", args |-> <<r>>, val |-> "loaded"]
  /\ UNCHANGED <<now, storedAttempt, held, subStored, subDocs, tweet, scored,
                 subscriptions, tweetDocs, user, config, configs>>
  /\ UNCHANGED attemptVars

\* request r: user.incLoginAttempts() on its copy; the copy itself is not changed
incLoginAttempts(r) ==
  /\ userDocs[r].pc # "idle"
  /\ user' = UpdateOne(user, LoginUpdates(TheVal(userDocs[r].doc), now))
  /\ userDocs' = [userDocs EXCEPT ![r].pc = "called"]
  /\ ret' = [op |-> "incLoginAttempts", args |-> <<r>>, val |-> "updated"]
  /\ UNCHANGED <<now, storedAttempt, held, subStored, subDocs, tweet, scored,
                 subscriptions, tweetDocs, config, configs>>
  /\ UNCHANGED attemptVars

\* request r: user.resetLoginAttempts() on its copy: both fields are unset, and an
\* unset loginAttempts reads as the schema default
resetLoginAttempts(r) ==
  /\ userDocs[r].pc # "idle"
  /\ user' = [user EXCEPT !.security = DefaultSecurity]
  /\ user' # user
  /\ ret' = [op |-> "resetLoginAttempts", args |-> <<r>>, val |-> "updated"]
  /\ UNCHANGED <<now, storedAttempt, held, subStored, subDocs, tweet, scored,
                 subscriptions, tweetDocs, userDocs, config, configs>>
  /\ UNCHANGED attemptVars

LoginTick ==
  /\ now < MaxLoginTime
  /\ now' = now + 1
  /\ ret' = [op |-> "tick", args |-> <<>>, val |-> "none"]
  /\ UNCHANGED <<storedAttempt, held, subStored, subDocs, tweet, scored,
                 subscriptions, tweetDocs, user, userDocs, config, configs>>
  /\ UNCHANGED attemptVars

\* SpecLogin: login requests counting failed attempts on one stored user
InitLogin ==
  /\ now = 0
  /\ storedAttempt = Unset
  /\ held = Unset
  /\ subStored = Unset
  /\ subDocs = Unset
  /\ tweet = Unset
  /\ scored = <<>>
  /\ subscriptions = Unset
  /\ tweetDocs = Unset
  /\ user = NewUser
  /\ userDocs = [r \in Workers |-> IdleRequest]
  /\ config = Unset
  /\ configs = Unset
  /\ NewPushRecord(Unset, DefaultMaxRetries, DefaultRetryDelay)

NextLogin ==
  \/ LoginTick
  \/ \E r \in Workers : LoadUser(r)
  \/ \E r \in Workers :
       user.security.loginAttempts < MaxLoginAttempts /\ incLoginAttempts(r)
  \/ \E r \in Workers : resetLoginAttempts(r)

SpecLogin == InitLogin /\ [][NextLogin]_vars

\* SpecLoginRace: as SpecLogin, but every request makes one incLoginAttempts call
\* on the copy it loaded and loads the user again before the next
NextLoginRace ==
  \/ LoginTick
  \/ \E r \in Workers : LoadUser(r)
  \/ \E r \in Workers :
       /\ user.security.loginAttempts < MaxLoginAttempts
       /\ userDocs[r].pc = "loaded"
       /\ incLoginAttempts(r)
  \/ \E r \in Workers : resetLoginAttempts(r)

SpecLoginRace == InitLogin /\ [][NextLoginRace]_vars

\* ======================= SystemConfig =======================
\* A JavaScript value: its kind, and its number or its characters
VNum(n) == [tag |-> "number", num |-> n, str |-> <<>>]
VStr(s) == [tag |-> "string", num |-> 0, str |-> s]
VNull == [tag |-> "null", num |-> 0, str |-> <<>>]
VUndefined == [tag |-> "undefined", num |-> 0, str |-> <<>>]
VArray == [tag |-> "array", num |-> 0, str |-> <<>>]

\* Array.isArray(newValue) ? 'array' : typeof newValue   (typeof null is 'object')
ActualType(v) == IF v.tag = "null" THEN "object" ELSE v.tag

\* new RegExp(pattern).test(s), for the patterns the configurations use
PatternTest(pattern, s) ==
  CASE pattern = "^a" -> Len(s) > 0 /\ s[1] = "a"
    [] OTHER -> TRUE

\* validation.enum.includes(newValue): strict equality with one of the strings
EnumIncludes(en, v) == v.tag = "string" /\ \E i \in DOMAIN en : en[i] = v.str

validateValueNoMax(doc, newValue) ==
  LET validation == doc.validation
      expectedType == doc.dataType
  IN IF validation.required /\ newValue.tag \in {"null", "undefined"} THEN "required"
     ELSE IF ActualType(newValue) # expectedType /\ newValue.tag # "null" THEN "type"
     ELSE IF expectedType = "number" /\ newValue.tag = "number"
               /\ IsSet(validation.min) /\ newValue.num < TheVal(validation.min) THEN "min"
     ELSE IF expectedType = "string" /\ newValue.tag = "string"
               /\ IsSet(validation.minLength)
               /\ Len(newValue.str) < TheVal(validation.minLength) THEN "minLength"
     ELSE IF expectedType = "string" /\ newValue.tag = "string"
               /\ IsSet(validation.maxLength)
               /\ Len(newValue.str) > TheVal(validation.maxLength) THEN "maxLength"
     ELSE IF expectedType = "string" /\ newValue.tag = "string"
               /\ IsSet(validation.pattern)
               /\ ~PatternTest(TheVal(validation.pattern), newValue.str) THEN "pattern"
     ELSE IF Len(validation.enum) > 0 /\ ~EnumIncludes(validation.enum, newValue) THEN "enum"
     ELSE "ok"

\* validateValue(newValue): "ok" where the code returns true, else the check that throws
validateValue(doc, newValue) ==
  LET validation == doc.validation
      expectedType == doc.dataType
  IN IF validation.required /\ newValue.tag \in {"null", "undefined"} THEN "required"
     ELSE IF ActualType(newValue) # expectedType /\ newValue.tag # "null" THEN "type"
     ELSE IF expectedType = "number" /\ newValue.tag = "number"
               /\ IsSet(validation.min) /\ newValue.num < TheVal(validation.min) THEN "min"
     ELSE IF expectedType = "number" /\ newValue.tag = "number"
               /\ IsSet(validation.max) /\ newValue.num > TheVal(validation.max) THEN "max"
     ELSE IF expectedType = "string" /\ newValue.tag = "string"
               /\ IsSet(validation.minLength)
               /\ Len(newValue.str) < TheVal(validation.minLength) THEN "minLength"
     ELSE IF expectedType = "string" /\ newValue.tag = "string"
               /\ IsSet(validation.maxLength)
               /\ Len(newValue.str) > TheVal(validation.maxLength) THEN "maxLength"
     ELSE IF expectedType = "string" /\ newValue.tag = "string"
               /\ IsSet(validation.pattern)
               /\ ~PatternTest(TheVal(validation.pattern), newValue.str) THEN "pattern"
     ELSE IF Len(validation.enum) > 0 /\ ~EnumIncludes(validation.enum, newValue) THEN "enum"
     ELSE "ok"

DefaultValidation ==
  [required |-> FALSE, min |-> Unset, max |-> Unset, minLength |-> Unset,
   maxLength |-> Unset, pattern |-> Unset, enum |-> <<>>]

NewConfig(key, dataType, value, validation, defaultValue) ==
  [key |-> key, value |-> value, dataType |-> dataType, validation |-> validation,
   defaultValue |-> defaultValue, history |-> <<>>, lastUpdatedBy |-> "system",
   accessStats |-> [readCount |-> 0, writeCount |-> 0, lastReadAt |-> Unset,
                    lastWriteAt |-> Unset]]

ConfigPushMax ==
  NewConfig("push.max", "number", VNum(5),
            [DefaultValidation EXCEPT !.required = TRUE, !.min = Some(1), !.max = Some(10)],
            Some(VNum(3)))
ConfigLogTag ==
  NewConfig("log.tag", "string", VStr(<<"a", "b">>),
            [DefaultValidation EXCEPT !.minLength = Some(2), !.maxLength = Some(3),
                                      !.pattern = Some("^a")],
            Unset)
ConfigMode ==
  NewConfig("mode", "string", VStr(<<"o", "n">>),
            [DefaultValidation EXCEPT !.enum = <<<<"o", "n">>, <<"o", "f", "f">>>>],
            Some(VStr(<<"o", "n">>)))
ConfigInputs == {ConfigPushMax, ConfigLogTag, ConfigMode}
ConfigKeys == {c.key : c \in ConfigInputs}
StoredConfigs == [k \in ConfigKeys |-> CHOOSE c \in ConfigInputs : c.key = k]

NewValueInputs ==
  {VNum(0), VNum(7), VNum(11), VStr(<<"a">>), VStr(<<"a", "d">>), VStr(<<"b", "c">>), VStr(<<"a", "b", "c", "d">>), VStr(<<"o", "f", "f">>),
   VNull, VUndefined, VArray}

\* Number cast to the String of history.version
NumToString(n) ==
  CASE n = 0 -> "0" [] n = 1 -> "1" [] n = 2 -> "2" [] n = 3 -> "3" [] n = 4 -> "4"
    [] n = 5 -> "5" [] n = 6 -> "6" [] n = 7 -> "7" [] n = 8 -> "8" [] n = 9 -> "9"

\* the entry updateValue pushes onto history
HistoryEntry(doc, changedBy, reason, at) ==
  [value |-> doc.value, changedBy |-> changedBy, changedAt |-> at, reason |-> reason,
   version |-> NumToString(Len(doc.history) + 1)]

\* the document after the assignments of updateValue, before save()
ValueUpdated(doc, newValue, changedBy, reason, at) ==
  [doc EXCEPT !.history = Append(doc.history, HistoryEntry(doc, changedBy, reason, at)),
              !.value = newValue,
              !.lastUpdatedBy = changedBy,
              !.accessStats.writeCount = doc.accessStats.writeCount + 1,
              !.accessStats.lastWriteAt = Some(at)]

\* save(): value is a required path, and the pre-save hook runs validateValue on it
ConfigSave(doc) ==
  IF doc.value.tag \in {"null", "undefined"} THEN "ValidationError"
  ELSE IF validateValue(doc, doc.value) # "ok" THEN "Error"
  ELSE "saved"

\* findOne({ key }): the stored document is loaded into memory
LoadConfig(k) ==
  /\ config = Unset
  /\ config' = Some(configs[k])
  /\ ret' = [op |-> "findOne", args |-> <<k>>, val |-> "loaded"]
  /\ UNCHANGED <<now, configs>>
  /\ UNCHANGED <<storedAttempt, held, subStored, subDocs, tweet, scored,
                 subscriptions, tweetDocs, user, userDocs>>
  /\ UNCHANGED attemptVars

\* the document in memory is dropped
ReleaseConfig ==
  /\ IsSet(config)
  /\ config' = Unset
  /\ ret' = [op |-> "release", args |-> <<>>, val |-> "none"]
  /\ UNCHANGED <<now, configs>>
  /\ UNCHANGED <<storedAttempt, held, subStored, subDocs, tweet, scored,
                 subscriptions, tweetDocs, user, userDocs>>
  /\ UNCHANGED attemptVars

\* updateValue(newValue, changedBy, reason) on the document in memory, called as op
UpdateValueAs(op, newValue, changedBy, reason) ==
  LET doc == TheVal(config)
      updated == ValueUpdated(doc, newValue, changedBy, reason, now)
      outcome == IF validateValue(doc, newValue) # "ok" THEN "Error" ELSE ConfigSave(updated)
  IN /\ config' = IF validateValue(doc, newValue) # "ok" THEN config ELSE Some(updated)
     /\ configs' = IF outcome = "saved" THEN [configs EXCEPT ![doc.key] = updated]
                    ELSE configs
     /\ ret' = [op |-> op, args |-> <<newValue, changedBy>>, val |-> outcome]

updateValue(newValue, changedBy, reason) ==
  /\ IsSet(config)
  /\ UpdateValueAs("updateValue", newValue, changedBy, reason)
  /\ UNCHANGED now
  /\ UNCHANGED <<storedAttempt, held, subStored, subDocs, tweet, scored,
                 subscriptions, tweetDocs, user, userDocs>>
  /\ UNCHANGED attemptVars

\* resetToDefault(changedBy): updateValue(defaultValue), or an error without one
resetToDefault(changedBy) ==
  /\ IsSet(config)
  /\ IF IsSet(TheVal(config).defaultValue)
       THEN UpdateValueAs("resetToDefault", TheVal(TheVal(config).defaultValue), changedBy,
                          "reset")
       ELSE /\ ret' = [op |-> "resetToDefault", args |-> <<VUndefined, changedBy>>,
                       val |-> "Error"]
            /\ UNCHANGED <<config, configs>>
  /\ UNCHANGED now
  /\ UNCHANGED <<storedAttempt, held, subStored, subDocs, tweet, scored,
                 subscriptions, tweetDocs, user, userDocs>>
  /\ UNCHANGED attemptVars

\* Array.prototype.sort((a, b) => b.changedAt - a.changedAt): stable, newest first,
\* and it sorts the array it is called on
InsertNewestFirst(sorted, en) ==
  LET k == Cardinality({i \in DOMAIN sorted : sorted[i].changedAt >= en.changedAt})
  IN SubSeq(sorted, 1, k) \o <<en>> \o SubSeq(sorted, k + 1, Len(sorted))

RECURSIVE SortFrom(_, _, _)
SortFrom(h, i, acc) ==
  IF i > Len(h) THEN acc ELSE SortFrom(h, i + 1, InsertNewestFirst(acc, h[i]))
SortNewestFirst(h) == SortFrom(h, 1, <<>>)

HistoryLimits == {1, 10}

getHistory(limit) ==
  /\ IsSet(config)
  /\ LET doc == TheVal(config)
         sorted == SortNewestFirst(doc.history)
     IN /\ config' = Some([doc EXCEPT !.history = sorted])
        /\ ret' = [op |-> "getHistory", args |-> <<limit>>,
                   val |-> SubSeq(sorted, 1, Min2(limit, Len(sorted)))]
  /\ UNCHANGED <<now, configs>>
  /\ UNCHANGED <<storedAttempt, held, subStored, subDocs, tweet, scored,
                 subscriptions, tweetDocs, user, userDocs>>
  /\ UNCHANGED attemptVars

\* the number of history entries in the stored collection
RECURSIVE StoredEntries(_)
StoredEntries(ks) ==
  IF ks = {} THEN 0
  ELSE LET k == CHOOSE x \in ks : TRUE
       IN Len(configs[k].history) + StoredEntries(ks \ {k})

\* the clock advances once per stored history entry
ConfigTick ==
  /\ now < StoredEntries(ConfigKeys)
  /\ now' = now + 1
  /\ ret' = [op |-> "tick", args |-> <<>>, val |-> "none"]
  /\ UNCHANGED <<config, configs>>
  /\ UNCHANGED <<storedAttempt, held, subStored, subDocs, tweet, scored,
                 subscriptions, tweetDocs, user, userDocs>>
  /\ UNCHANGED attemptVars

ChangedByInputs == {"admin"}

\* ---- SystemConfig.batchUpdate(updates, changedBy) ----
\* a valid and an out-of-range value, a valid string, a null the schema rejects
\* at save(), and a key that is not stored
UpdateInputs ==
  {[key |-> "push.max", value |-> VNum(7)],
   [key |-> "push.max", value |-> VNum(11)],
   [key |-> "log.tag", value |-> VStr(<<"a", "d">>)],
   [key |-> "log.tag", value |-> VNull],
   [key |-> "none", value |-> VNum(7)]}
UpdateLists == UNION {[1..n -> UpdateInputs] : n \in 1..MaxBatch}

\* one pass of the loop: findOne, updateValue, and the result pushed; an error
\* thrown by updateValue or a rejected save is caught
BatchStep(acc, update, changedBy, at) ==
  IF update.key \notin DOMAIN acc.store
    THEN [acc EXCEPT !.results = Append(acc.results,
                                        [key |-> update.key, success |-> FALSE,
                                         error |-> "missing"])]
  ELSE LET doc == acc.store[update.key]
           updated == ValueUpdated(doc, update.value, changedBy, "", at)
           outcome == IF validateValue(doc, update.value) # "ok" THEN "Error"
                      ELSE ConfigSave(updated)
       IN IF outcome = "saved"
            THEN [store |-> [acc.store EXCEPT ![update.key] = updated],
                  results |-> Append(acc.results,
                                     [key |-> update.key, success |-> TRUE,
                                      error |-> "none"])]
            ELSE [acc EXCEPT !.results = Append(acc.results,
                                                [key |-> update.key, success |-> FALSE,
                                                 error |-> outcome])]

RECURSIVE BatchFrom(_, _, _, _, _)
BatchFrom(acc, updates, i, changedBy, at) ==
  IF i > Len(updates) THEN acc
  ELSE BatchFrom(BatchStep(acc, updates[i], changedBy, at), updates, i + 1, changedBy, at)

batchUpdate(updates, changedBy) ==
  /\ config = Unset
  /\ LET done == BatchFrom([store |-> configs, results |-> <<>>], updates, 1, changedBy, now)
     IN /\ configs' = done.store
        /\ ret' = [op |-> "batchUpdate", args |-> <<updates, changedBy>>,
                   val |-> done.results]
  /\ UNCHANGED <<now, config>>
  /\ UNCHANGED <<storedAttempt, held, subStored, subDocs, tweet, scored,
                 subscriptions, tweetDocs, user, userDocs>>
  /\ UNCHANGED attemptVars

\* SpecConfig: one stored configuration loaded, updated, reset and queried
InitConfig ==
  /\ now = 0
  /\ storedAttempt = Unset
  /\ held = Unset
  /\ subStored = Unset
  /\ subDocs = Unset
  /\ tweet = Unset
  /\ scored = <<>>
  /\ subscriptions = Unset
  /\ tweetDocs = Unset
  /\ user = Unset
  /\ userDocs = Unset
  /\ config = Unset
  /\ configs = StoredConfigs
  /\ NewPushRecord(Unset, DefaultMaxRetries, DefaultRetryDelay)

NextConfig ==
  \/ ConfigTick
  \/ \E k \in ConfigKeys : LoadConfig(k)
  \/ ReleaseConfig
  \/ \E v \in NewValueInputs, by \in ChangedByInputs :
       /\ IsSet(config)
       /\ Len(TheVal(config).history) < MaxUpdates
       /\ StoredEntries(ConfigKeys) < MaxUpdates
       /\ updateValue(v, by, "")
  \/ \E by \in ChangedByInputs :
       /\ IsSet(config)
       /\ Len(TheVal(config).history) < MaxUpdates
       /\ StoredEntries(ConfigKeys) < MaxUpdates
       /\ resetToDefault(by)
  \/ \E l \in HistoryLimits : getHistory(l)
  \/ \E us \in UpdateLists, by \in ChangedByInputs :
       /\ StoredEntries(ConfigKeys) + Len(us) <= MaxUpdates
       /\ batchUpdate(us, by)

SpecConfig == InitConfig /\ [][NextConfig]_vars

\* ======================= workers on one stored PushRecord =======================
\* Each worker loads its own copy of the stored attempt, calls the lifecycle
\* methods on the copy, and save() writes the copy's modified fields back.
IdleWorker == [pc |-> "idle", status |-> "none", timing |-> DefaultTiming(Unset)]

\* the queue hands the pending attempt to worker w: PushRecord.findById
LoadAttempt(w) ==
  /\ held[w].pc = "idle"
  /\ storedAttempt.status = "pending"
  /\ held' = [held EXCEPT ![w] = [pc |-> "loaded", status |-> storedAttempt.status,
                                   timing |-> storedAttempt.timing]]
  /\ ret' = [op |-> "findById", args |-> <<w>>, val |-> "loaded"]
  /\ UNCHANGED <<now, storedAttempt, subStored, subDocs, tweet, scored, otherVars>>
  /\ UNCHANGED attemptVars

\* worker w: attempt.markAsStarted() on its copy, then the send begins
WorkerMarkAsStarted(w) ==
  /\ held[w].pc = "loaded"
  /\ LET t == StartedTiming(held[w].timing, now)
     IN /\ held' = [held EXCEPT ![w] = [pc |-> "sending", status |-> "sending",
                                        timing |-> t]]
        /\ storedAttempt' = [storedAttempt EXCEPT !.status = "sending", !.timing = t]
  /\ ret' = [op |-> "markAsStarted", args |-> <<w>>, val |-> "saved"]
  /\ UNCHANGED <<now, subStored, subDocs, tweet, scored, otherVars>>
  /\ UNCHANGED attemptVars

\* worker w: the channel adapter answered; markAsSuccess / markAsFailed on its copy
WorkerMarkOutcome(w, outcome) ==
  /\ held[w].pc = "sending"
  /\ LET t == CompletedTiming(held[w].timing, now)
     IN /\ held' = [held EXCEPT ![w] = [pc |-> "done", status |-> outcome, timing |-> t]]
        /\ storedAttempt' = [storedAttempt EXCEPT !.status = outcome, !.timing = t,
                                                  !.outcomes = storedAttempt.outcomes + 1]
  /\ ret' = [op |-> IF outcome = "success" THEN "markAsSuccess" ELSE "markAsFailed",
             args |-> <<w>>, val |-> "saved"]
  /\ UNCHANGED <<now, subStored, subDocs, tweet, scored, otherVars>>
  /\ UNCHANGED attemptVars

\* SpecWorkers: workers handed the same stored pending attempt
InitWorkers ==
  /\ now = 0
  /\ storedAttempt = [status |-> DefaultStatus, timing |-> DefaultTiming(Some(0)),
                      outcomes |-> 0]
  /\ held = [w \in Workers |-> IdleWorker]
  /\ subStored = Unset
  /\ subDocs = Unset
  /\ tweet = Unset
  /\ scored = <<>>
  /\ OtherIdle
  /\ NewPushRecord(Some(0), DefaultMaxRetries, DefaultRetryDelay)

NextWorkers ==
  \/ WorkerTick
  \/ \E w \in Workers : LoadAttempt(w)
  \/ \E w \in Workers : WorkerMarkAsStarted(w)
  \/ \E w \in Workers, o \in {"success", "failed"} : WorkerMarkOutcome(w, o)

SpecWorkers == InitWorkers /\ [][NextWorkers]_vars

\* ======================= properties =======================

Edges ==
  {<<"pending", "sending">>, <<"sending", "success">>, <<"sending", "failed">>,
   <<"failed", "pending">>, <<"pending", "cancelled">>, <<"sending", "cancelled">>}

\* C1: every change of status follows one of the edges pending->sending,
\* sending->success, sending->failed, failed->pending, pending->cancelled,
\* sending->cancelled (so nothing leaves success or cancelled).
C1_StatusFollowsEdges ==
  [][status' # status => <<status, status'>> \in Edges]_vars

\* C2: a markAsSuccess call on an attempt that is already success keeps
\* timing.completedAt, timing.duration and result.messageId of the first call.
C2_SecondSuccessKeepsFirst ==
  [][(status = "success" /\ ret'.op = "markAsSuccess" /\ ret' # ret)
       => /\ timing'.completedAt = timing.completedAt
          /\ timing'.duration = timing.duration
          /\ result'.messageId = result.messageId]_vars

\* C3: canRetry() returns true iff status is failed and retryCount < maxRetries.
C3_CanRetryIff ==
  ret.op = "canRetry"
    => (ret.val <=> (status = "failed"
                     /\ pushConfig.retryCount < pushConfig.maxRetries))

C3_Witness ==
  /\ ret.op = "canRetry"
  /\ ret.val = TRUE
  /\ pushConfig.retryCount = 2

\* C4: right after the k-th (markAsFailed; addRetryAttempt) cycle of an attempt
\* created with retryCount 0, canRetry() is true iff k < maxRetries, and from
\* k = maxRetries on getNextRetryTime() is null.
C4_RetryBudget ==
  (ret.op = "addRetryAttempt" /\ cycles >= 0)
    => /\ canRetry <=> cycles < pushConfig.maxRetries
       /\ cycles >= pushConfig.maxRetries
            => \A j \in JitterSamples : getNextRetryTime(j) = Unset

C4_Witness ==
  /\ ret.op = "addRetryAttempt"
  /\ cycles = 3
  /\ pushConfig.maxRetries = 3
  /\ ~canRetry

\* C5: in every reachable state retryCount <= maxRetries.
C5_RetryCountWithinCap ==
  pushConfig.retryCount <= pushConfig.maxRetries

\* C6: getNextRetryTime() is null exactly when the attempt cannot retry;
\* otherwise it returns t with d*2^(r-1) s <= t - now < d*2^(r-1) s + 1 s
\* (both sides doubled, in milliseconds).
C6_NextRetryTimeRange ==
  ret.op = "getNextRetryTime"
    => IF status = "failed" /\ pushConfig.retryCount < pushConfig.maxRetries
         THEN \E t \in ret.val :
                LET twice == pushConfig.retryDelay * 1000 * Pow2(pushConfig.retryCount)
                IN /\ twice <= 2 * (t - now)
                   /\ 2 * (t - now) < twice + 2 * 1000
         ELSE ret.val = Unset

C6_Witness ==
  /\ ret.op = "getNextRetryTime"
  /\ pushConfig.retryCount = 2
  /\ pushConfig.retryDelay = 5
  /\ \E t \in ret.val : 10000 < t - now /\ t - now < 11000

\* C7 (as stated): a newly created attempt is pending with retryCount 0, an
\* empty retry history and timing.scheduledAt set.
C7_NewAttemptScheduled ==
  ret.op = "new"
    => /\ status = "pending"
       /\ pushConfig.retryCount = 0
       /\ retryHistory = <<>>
       /\ IsSet(timing.scheduledAt)

\* C7 (amended): a newly created attempt is pending with retryCount 0 and an
\* empty retry history; timing.scheduledAt holds what the creator supplied and
\* is unset when nothing was supplied; no other timing field is set.
C7_NewAttemptDefaults ==
  ret.op = "new"
    => /\ status = "pending"
       /\ pushConfig.retryCount = 0
       /\ retryHistory = <<>>
       /\ timing.scheduledAt = ret.args[1]
       /\ timing.startedAt = Unset
       /\ timing.completedAt = Unset
       /\ timing.duration = Unset
       /\ timing.queueTime = Unset

C7_Witness ==
  /\ ret.op = "new"
  /\ status = "pending"
  /\ timing.scheduledAt = Unset

\* C8 (as stated): wherever queueTime is set it is non-negative.
C8_QueueTimeNonNegative ==
  IsSet(timing.queueTime) => TheVal(timing.queueTime) >= 0

\* C8 (amended): after markAsStarted on an attempt whose scheduledAt is set,
\* startedAt is the time of the call and queueTime = startedAt - scheduledAt,
\* negative when scheduledAt is later; when scheduledAt is unset queueTime
\* stays unset; wherever queueTime is set it equals startedAt - scheduledAt.
C8_QueueTimeIsDifference ==
  /\ (ret.op = "markAsStarted" /\ IsSet(timing.scheduledAt))
       => /\ timing.startedAt = Some(now)
          /\ timing.queueTime = Some(now - TheVal(timing.scheduledAt))
  /\ ~IsSet(timing.scheduledAt) => ~IsSet(timing.queueTime)
  /\ IsSet(timing.queueTime)
       => /\ IsSet(timing.startedAt)
          /\ IsSet(timing.scheduledAt)
          /\ TheVal(timing.queueTime)
               = TheVal(timing.startedAt) - TheVal(timing.scheduledAt)

C8_Witness ==
  /\ ret.op = "markAsStarted"
  /\ IsSet(timing.queueTime)
  /\ TheVal(timing.queueTime) < 0

\* C9: wherever status is success or failed, startedAt, completedAt and
\* duration are set, startedAt <= completedAt and
\* duration = completedAt - startedAt.
C9_CompletedTimingSet ==
  status \in {"success", "failed"}
    => /\ IsSet(timing.startedAt)
       /\ IsSet(timing.completedAt)
       /\ IsSet(timing.duration)
       /\ TheVal(timing.startedAt) <= TheVal(timing.completedAt)
       /\ TheVal(timing.duration)
            = TheVal(timing.completedAt) - TheVal(timing.startedAt)

\* C10: markAsFailed(errorCode, errorMessage) raises no error (its save
\* succeeds) and leaves status failed with result.errorCode and
\* result.errorMessage equal to its arguments.
C10_FailureRecordedNotRaised ==
  ret.op = "markAsFailed"
    => /\ ret.val = "saved"
       /\ status = "failed"
       /\ result.errorCode = Some(ret.args[1])
       /\ result.errorMessage = Some(ret.args[2])

\* C11: addRetryAttempt increases retryCount by exactly 1, appends exactly one
\* entry to retryHistory and leaves status, timing, result and interaction
\* unchanged.
C11_AddRetryFrame ==
  [][ret'.op = "addRetryAttempt"
       => /\ pushConfig'.retryCount = pushConfig.retryCount + 1
          /\ pushConfig'.maxRetries = pushConfig.maxRetries
          /\ pushConfig'.retryDelay = pushConfig.retryDelay
          /\ Len(retryHistory') = Len(retryHistory) + 1
          /\ SubSeq(retryHistory', 1, Len(retryHistory)) = retryHistory
          /\ status' = status
          /\ timing' = timing
          /\ result' = result
          /\ interaction' = interaction]_vars

C11_Witness ==
  /\ ret.op = "addRetryAttempt"
  /\ status = "failed"
  /\ pushConfig.retryCount = 2
  /\ Len(retryHistory) = 2

\* C12: updateInteraction(kind, data) leaves status, timing, result,
\* retryCount and retryHistory unchanged in every status; only the interaction
\* fields of the named kind change, and an unrecognised kind changes nothing.
C12_InteractionFrame ==
  [][ret'.op = "updateInteraction"
       => LET k == ret'.args[1]
              i == interaction
              j == interaction'
              readSame == j.isRead = i.isRead /\ j.readAt = i.readAt
              clickSame == /\ j.isClicked = i.isClicked
                           /\ j.clickedAt = i.clickedAt
                           /\ j.clickCount = i.clickCount
              feedbackSame == j.feedback = i.feedback /\ j.feedbackAt = i.feedbackAt
          IN /\ status' = status
             /\ timing' = timing
             /\ result' = result
             /\ pushConfig' = pushConfig
             /\ retryHistory' = retryHistory
             /\ k = "read" => clickSame /\ feedbackSame
             /\ k = "click" => readSame /\ feedbackSame
             /\ k = "feedback" => readSame /\ clickSame
             /\ k \notin {"read", "click", "feedback"} => j = i]_vars

C12_Witness ==
  /\ ret.op = "updateInteraction"
  /\ ret.args[1] = "read"
  /\ status = "success"
  /\ interaction.isRead
  /\ interaction.clickCount = 1

\* C13: once the subscription is deactivated, an attempt that is pending or
\* sending (or already cancelled) never reaches success or failed.
C13_NoOutcomeAfterDeactivation ==
  [][(~subStored.isActive /\ status \in {"pending", "sending", "cancelled"})
       => status' \notin {"success", "failed"}]_vars

\* C14: the same attempt is never in its sending phase under two workers at
\* once, and at most one outcome is recorded for its sending phase.
C14_SingleOwner ==
  /\ Cardinality({w \in Workers : held[w].pc = "sending"}) <= 1
  /\ storedAttempt.outcomes <= 1

\* C15: the stored totalMatches (totalPushes) is the number of
\* updateStats('match') (updateStats('push')) calls made so far: no update is lost.
C15_NoLostStatsUpdate ==
  /\ subStored.stats.totalMatches
       = Cardinality({w \in Workers : subDocs[w].pc = "done" /\ subDocs[w].type = "match"})
  /\ subStored.stats.totalPushes
       = Cardinality({w \in Workers : subDocs[w].pc = "done" /\ subDocs[w].type = "push"})

\* C16: a save of a subscription whose keyword list is empty or longer than 20,
\* or whose channel list is empty, fails and leaves the stored subscription
\* unchanged; the stored subscription always has 1..20 keywords and at least
\* one channel.
C16_SaveValidated ==
  /\ [][ret'.op = "save"
          => LET d == subDocs'[ret'.args[1]].doc
             IN (\/ Len(d.keywords) = 0
                 \/ Len(d.keywords) > 20
                 \/ Len(d.pushSettings.channels) = 0)
                  => ret'.val # "saved" /\ subStored' = subStored]_vars
  /\ [](/\ Len(subStored.keywords) \in 1..20
         /\ Len(subStored.pushSettings.channels) >= 1)

C16_Witness ==
  /\ ret.op = "save"
  /\ ret.val # "saved"
  /\ Len(subDocs[ret.args[1]].doc.keywords) = 1
  /\ Len(subDocs[ret.args[1]].doc.pushSettings.channels) = 0
  /\ subStored.isActive

\* C17: matchesKeywords(text) is true iff the text contains, ignoring case, at
\* least one required keyword as a substring and none of the exclude keywords.
ContainsIgnoringCase(text, kw) ==
  \E p \in 0..(Len(text) - Len(kw)) :
    \A j \in 1..Len(kw) : LowerChar(text[p + j]) = LowerChar(kw[j])

C17_MatchesKeywordsIff ==
  ret.op = "matchesKeywords"
    => (ret.val <=>
          /\ \E i \in DOMAIN subStored.keywords :
               ContainsIgnoringCase(tweet.text, subStored.keywords[i])
          /\ \A i \in DOMAIN subStored.filters.excludeKeywords :
               ~ContainsIgnoringCase(tweet.text, subStored.filters.excludeKeywords[i]))

C17_Witness ==
  /\ ret.op = "matchesKeywords"
  /\ ret.val = TRUE
  /\ tweet.text = <<"N", "e", "w", " ", "A", "I", " ", "b", "r", "e", "a", "k", "t", "h", "r", "o", "u", "g", "h">>
  /\ subStored.keywords = <<KeywordAI>>
  /\ subStored.filters.excludeKeywords = <<<<"s", "p", "a", "m">>>>

\* C18: matchesFilters(item) is true iff the three engagement minimums are met,
\* the media mode and the link mode are satisfied, and the item's language is
\* one of the configured languages when any is configured.
ModeSatisfied(mode, has) ==
  /\ mode = "required" => has
  /\ mode = "excluded" => ~has

LanguageAllowed(doc, t) ==
  \/ Len(doc.filters.languages) = 0
  \/ \E i \in DOMAIN doc.filters.languages : doc.filters.languages[i] = t.metadata.lang

C18_MatchesFiltersIff ==
  ret.op = "matchesFilters"
    => (ret.val <=>
          /\ tweet.public_metrics.like_count >= subStored.filters.minLikes
          /\ tweet.public_metrics.retweet_count >= subStored.filters.minRetweets
          /\ tweet.public_metrics.reply_count >= subStored.filters.minReplies
          /\ ModeSatisfied(subStored.filters.hasMedia, HasMedia(tweet))
          /\ ModeSatisfied(subStored.filters.hasLinks, HasLinks(tweet))
          /\ LanguageAllowed(subStored, tweet))

\* C19: for start, end and current hour in 0..23, isInActiveHours is true iff
\* (start <= end and start <= hour <= end) or (start > end and (hour >= start
\* or hour <= end)); 22..6 is active at 23 and 3 and not at 10, 9..17 is active
\* at 9 and 17 and not at 8 and 18.
ActiveAt(s, en, h) ==
  \/ s <= en /\ s <= h /\ h <= en
  \/ s > en /\ (h >= s \/ h <= en)

C19_ActiveHoursIff ==
  ret.op = "isInActiveHours"
    => LET s == subStored.pushSettings.activeHours.start
           en == subStored.pushSettings.activeHours.end
           h == ret.args[1]
       IN /\ h = now
          /\ ret.val <=> ActiveAt(s, en, h)
          /\ (s = 22 /\ en = 6 /\ h \in {23, 3}) => ret.val
          /\ (s = 22 /\ en = 6 /\ h = 10) => ~ret.val
          /\ (s = 9 /\ en = 17 /\ h \in {9, 17}) => ret.val
          /\ (s = 9 /\ en = 17 /\ h \in {8, 18}) => ~ret.val

C19_Witness ==
  /\ ret.op = "isInActiveHours"
  /\ subStored.pushSettings.activeHours = [start |-> 22, end |-> 6]
  /\ now = 3
  /\ ret.val = TRUE

C21_FutureDatedClamped ==
  (ret.op = "calculateHotnessScore" /\ tweet.metadata.created_at > now)
    => ret.val = calculateHotnessScore([tweet EXCEPT !.metadata.created_at = now], now)

\* C22: a subscription is in the match result iff it is active, matchesKeywords
\* and matchesFilters are true and either its frequency is realtime or it is in
\* its active hours; an inactive subscription never appears and a realtime
\* subscription is never excluded by its active-hour window.
InResult(i) == \E k \in DOMAIN ret.val : ret.val[k] = i

KeywordsHold(doc, t) ==
  /\ \E i \in DOMAIN doc.keywords : ContainsIgnoringCase(t.text, doc.keywords[i])
  /\ \A i \in DOMAIN doc.filters.excludeKeywords :
       ~ContainsIgnoringCase(t.text, doc.filters.excludeKeywords[i])

FiltersHold(doc, t) ==
  /\ t.public_metrics.like_count >= doc.filters.minLikes
  /\ t.public_metrics.retweet_count >= doc.filters.minRetweets
  /\ t.public_metrics.reply_count >= doc.filters.minReplies
  /\ ModeSatisfied(doc.filters.hasMedia, HasMedia(t))
  /\ ModeSatisfied(doc.filters.hasLinks, HasLinks(t))

C23_HistoryMatchesCount ==
  /\ Len(retryHistory) = pushConfig.retryCount
  /\ \A i \in DOMAIN retryHistory : retryHistory[i].attempt = i

C23_Witness ==
  /\ pushConfig.retryCount = 3
  /\ Len(retryHistory) = 3
  /\ retryHistory[3].attempt = 3
  /\ status = "success"
  /\ ret.op = "markAsSuccess"

\* C24: after any sequence of updatePushStatus calls on one item, also calls
\* made concurrently by workers, pushStatus.pushChannels holds at most one entry
\* per channel, and that entry carries the status of the latest call for it.
EntriesOf(chs, channel) == {i \in DOMAIN chs : chs[i].channel = channel}

C24_OneEntryPerChannel ==
  /\ \A c \in PushChannels : Cardinality(EntriesOf(tweet.pushStatus.pushChannels, c)) <= 1
  /\ ret.op = "updatePushStatus"
       => \E i \in EntriesOf(tweet.pushStatus.pushChannels, ret.args[2]) :
            tweet.pushStatus.pushChannels[i].status = ret.args[3]

\* C25: pushStatus.isPushed is true only if every entry of pushChannels has
\* status success; a later call that sets a channel to failed or pending does
\* not leave isPushed true.
C25_IsPushedOnlyIfAllSuccess ==
  \A w \in Workers :
    IsSet(tweetDocs[w].doc)
      => LET ps == TheVal(tweetDocs[w].doc).pushStatus
         IN ps.isPushed => AllSuccess(ps.pushChannels)

\* C26: from an unlocked account with loginAttempts = 0, the fifth
\* incLoginAttempts call with no reset in between locks the account until two
\* hours after that call, fewer than five calls leave it unlocked, and once a
\* lock has expired the next call sets loginAttempts to 1 and clears lockUntil.
C26_LockAfterFiveAttempts ==
  [][ret'.op = "incLoginAttempts"
       => LET s == user.security
              t == user'.security
          IN /\ (~IsSet(s.lockUntil) /\ s.loginAttempts + 1 = LockThreshold)
                  => (t.lockUntil = Some(now + LockHours) /\ isLocked(user', now))
             /\ (~IsSet(s.lockUntil) /\ s.loginAttempts + 1 < LockThreshold)
                  => ~isLocked(user', now)
             /\ (IsSet(s.lockUntil) /\ ~isLocked(user, now))
                  => (t.loginAttempts = 1 /\ ~IsSet(t.lockUntil))]_vars

\* C27: under any interleaving of incLoginAttempts calls made on separately
\* loaded copies of one user, whenever the stored loginAttempts is at least 5
\* the stored lockUntil is set.
C27_LockNeverSkipped ==
  user.security.loginAttempts >= LockThreshold => IsSet(user.security.lockUntil)

\* C28: updateValue with a value that fails validation (wrong data type, number
\* outside min/max, string outside the length bounds or pattern, value outside
\* the enum, null or undefined for a required key) raises an error and leaves
\* value, history, lastUpdatedBy and writeCount unchanged; batchUpdate reports
\* such a key as success: false, still applies the remaining updates and
\* returns one result per update in input order.
FailsValidation(doc, v) ==
  LET vd == doc.validation
  IN \/ vd.required /\ v.tag \in {"null", "undefined"}
     \/ v.tag # "null" /\ v.tag # doc.dataType
     \/ /\ v.tag = "number"
        /\ \/ IsSet(vd.min) /\ v.num < TheVal(vd.min)
           \/ IsSet(vd.max) /\ v.num > TheVal(vd.max)
     \/ /\ v.tag = "string"
        /\ \/ IsSet(vd.minLength) /\ Len(v.str) < TheVal(vd.minLength)
           \/ IsSet(vd.maxLength) /\ Len(v.str) > TheVal(vd.maxLength)
           \/ IsSet(vd.pattern) /\ TheVal(vd.pattern) = "^a"
                /\ (v.str = <<>> \/ Head(v.str) # "a")
     \/ Len(vd.enum) > 0 /\ (v.tag # "string" \/ \A i \in DOMAIN vd.enum : vd.enum[i] # v.str)

\* the updates of a batch that change the stored value of key k
AppliedTo(updates, k) ==
  {i \in DOMAIN updates :
     /\ updates[i].key = k
     /\ ~FailsValidation(configs[k], updates[i].value)
     /\ updates[i].value.tag # "null"}

C28_InvalidValueRejected ==
  [][/\ (ret'.op = "updateValue" /\ FailsValidation(TheVal(config), ret'.args[1]))
          => (ret'.val = "Error" /\ config' = config /\ configs' = configs)
     /\ ret'.op = "batchUpdate"
          => LET updates == ret'.args[1]
                 results == ret'.val
             IN /\ Len(results) = Len(updates)
                /\ \A i \in DOMAIN updates :
                     /\ results[i].key = updates[i].key
                     /\ results[i].success <=>
                          /\ updates[i].key \in ConfigKeys
                          /\ i \in AppliedTo(updates, updates[i].key)
                /\ \A k \in ConfigKeys :
                     IF AppliedTo(updates, k) = {} THEN configs'[k] = configs[k]
                     ELSE LET last == CHOOSE i \in AppliedTo(updates, k) :
                                        \A j \in AppliedTo(updates, k) : j <= i
                          IN configs'[k].value = updates[last].value]_vars

C28_Witness ==
  /\ ret.op = "batchUpdate"
  /\ Len(ret.val) = 2
  /\ ret.args[1][1] = [key |-> "push.max", value |-> VNum(11)]
  /\ ret.args[1][2] = [key |-> "log.tag", value |-> VStr(<<"a", "d">>)]
  /\ ~ret.val[1].success
  /\ ret.val[2].success
  /\ configs["push.max"].value = VNum(5)
  /\ configs["log.tag"].value = VStr(<<"a", "d">>)

\* C29: each successful updateValue (or resetToDefault) appends exactly one
\* history entry holding the value that was current before the call, with
\* version = previous history length + 1, so after k successful updates the
\* history has k entries with versions 1..k in order.
C29_OneEntryPerUpdate ==
  [][(ret'.op \in {"updateValue", "resetToDefault"} /\ ret'.val = "saved")
       => LET k == TheVal(config).key
              h == configs[k].history
              g == configs'[k].history
          IN /\ Len(g) = Len(h) + 1
             /\ SubSeq(g, 1, Len(h)) = h
             /\ g[Len(g)].value = configs[k].value
             /\ \A i \in DOMAIN g : g[i].version = NumToString(i)]_vars

\* C30: getHistory(limit) returns the at most limit most recently changed
\* entries, newest first, and leaves the history array, its entries and their
\* order, unchanged.
C30_GetHistoryReadOnly ==
  [][ret'.op = "getHistory"
       => /\ config' = config
          /\ configs' = configs
          /\ Len(ret'.val) = Min2(ret'.args[1], Len(TheVal(config).history))
          /\ \A i \in 1..(Len(ret'.val) - 1) :
               ret'.val[i].changedAt >= ret'.val[i + 1].changedAt]_vars

====
